---- MODULE Spec2Model ----
(***************************************************************************)
(* State-machine model of the Expo push notification client (src/lib.rs):  *)
(* the chunking dispatchers send_push_notifications / get_push_receipts,   *)
(* the single-chunk primitives, the list serializer and send_request.      *)
(* One top-level call runs at a time; its suspension points are the        *)
(* request send (`req.send().await`) and the body read (`res.json()`).     *)
(***************************************************************************)
EXTENDS Integers, Sequences, FiniteSets, TLC

(* ------------------------------ bounds --------------------------------- *)

\* longest input sequence handed to an entry point
MaxItems == 3
\* largest configured push_chunk_size / receipt_chunk_size (0 is included)
MaxChunk == 2
\* most bytes the gzip encoder takes in one write call
EncoderCap == 12
\* longest input of each of the calls that run concurrently
MaxConcItems == 2

\* message values; message 0 stands for a value whose serialization fails
Messages == {0, 1, 2}
\* receipt ids (strings: they always serialize)
ReceiptIds == {1, 2}
\* receipt values the gateway may report
Receipts == {"ok", "error"}
\* thresholds of GzipPolicy::ZipGreaterThanTreshold tried by the model
Tresholds == {4, 12}
\* the top-level calls that run concurrently on one client
CallIds == {1, 2}
\* HTTP statuses the gateway answers with
Statuses == {200, 404, 500}

(* ------------------------------ helpers -------------------------------- *)

Min(a, b) == IF a < b THEN a ELSE b

\* all sequences over S of length 0..n
SeqsUpTo(S, n) == UNION {[1..k -> S] : k \in 0..n}

\* a take that yields one item too many
Take_OneMore(s, n) == SubSeq(s, 1, Min(n + 1, Len(s)))

\* Iterator::take(n) on the remaining input: the items it yields ...
Take(s, n) == SubSeq(s, 1, Min(n, Len(s)))
\* ... and what is left in the underlying iterator afterwards (by_ref)
Rest(s, n) == SubSeq(s, Min(n, Len(s)) + 1, Len(s))

(* ------------------------------ serializer ----------------------------- *)

\* whether serde_json::to_writer succeeds on the item
Serializable(item) == item # 0

\* bytes serde_json::to_writer appends for one item: item i is i bytes long,
\* none of them '[' (91), ',' (44) or ']' (93)
ItemBytes(item) == [k \in 1..item |-> 48 + item]

RECURSIVE WriteRest(_, _)
\* data.for_each(|msg| { buffer.push(','); to_writer(buffer, msg).unwrap() })
WriteRest(data, st) ==
    IF data = <<>> \/ st.status # "Ok" THEN st
    ELSE IF ~Serializable(Head(data))
         THEN [status |-> "Panic", buffer |-> st.buffer \o <<44>>]
         ELSE WriteRest(Tail(data),
                        [status |-> "Ok",
                         buffer |-> st.buffer \o <<44>> \o ItemBytes(Head(data))])

\* a serializer that writes "[]" for an empty sequence instead of failing
serialize_AcceptsEmpty(data, buffer) ==
    IF data = <<>> THEN [status |-> "Ok", buffer |-> buffer \o <<91, 93>>]
    ELSE IF ~Serializable(Head(data))
    THEN [status |-> "Panic", buffer |-> buffer \o <<91>>]
    ELSE LET st == WriteRest(Tail(data),
                             [status |-> "Ok",
                              buffer |-> buffer \o <<91>> \o ItemBytes(Head(data))])
         IN IF st.status = "Ok"
            THEN [status |-> "Ok", buffer |-> st.buffer \o <<93>>]
            ELSE st

\* serialize_into_json_list(data, &mut buffer): the status and the buffer after it
serialize_into_json_list(data, buffer) ==
    LET opened == buffer \o <<91>> IN
    IF data = <<>> THEN [status |-> "Empty", buffer |-> opened]
    ELSE IF ~Serializable(Head(data)) THEN [status |-> "Panic", buffer |-> opened]
    ELSE LET st == WriteRest(Tail(data),
                             [status |-> "Ok", buffer |-> opened \o ItemBytes(Head(data))])
         IN IF st.status = "Ok"
            THEN [status |-> "Ok", buffer |-> st.buffer \o <<93>>]
            ELSE st

(* ------------------------------ compression ---------------------------- *)

GzipNever == [kind |-> "Never", treshold |-> 0]
GzipAlways == [kind |-> "Always", treshold |-> 0]
ZipGreaterThanTreshold(t) == [kind |-> "ZipGreaterThanTreshold", treshold |-> t]
GzipPolicies == {GzipNever, GzipAlways} \cup {ZipGreaterThanTreshold(t) : t \in Tresholds}

\* a decision that also compresses a body of exactly the threshold
should_compress_AtTreshold(gzip, n) ==
    CASE gzip.kind = "ZipGreaterThanTreshold" /\ n >= gzip.treshold -> TRUE
      [] gzip.kind = "Always" -> TRUE
      [] OTHER -> FALSE

\* `let should_compress = match self.gzip { ... }` on buffer.len() = n
should_compress(gzip, n) ==
    CASE gzip.kind = "ZipGreaterThanTreshold" /\ n > gzip.treshold -> TRUE
      [] gzip.kind = "Always" -> TRUE
      [] OTHER -> FALSE

\* the byte count one `encoder.write(&buffer)` call reports for n bytes: a
\* single write takes no more than the encoder has room for
EncoderAccepts(n) == Min(n, EncoderCap)

\* the body handed to the transport: what the encoder was given, gzip-framed,
\* or the buffer itself
GzipBody(written) == [encoding |-> "gzip", plain |-> written]
PlainBody(buffer) == [encoding |-> "identity", plain |-> buffer]

(* ------------------------------ client state --------------------------- *)

VARIABLES
    client,     \* ExpoNotificationsClient: gzip, push_chunk_size, receipt_chunk_size
    op,         \* the public operation being run
    input,      \* the sequence the caller passed
    remaining,  \* the peekable iterator: items not yet pulled
    acc,        \* `receipts` (ticket list) / `out` (receipt mapping) of the loop
    buffer,     \* the serialization buffer of the current chunk
    pc,         \* where the call is
    sends,      \* every request handed to the transport, in order
    inflight,   \* indices in sends of requests whose response is not yet decoded
    chunks,     \* the data decoded from each chunk's response, in order
    answers,    \* what the gateway answered each request with: status, body shape
    result,     \* what the call returned
    calls,      \* concurrent calls: the locals of each call's activation
    accs        \* concurrent calls: the `receipts` vector of each call

vars == <<client, op, input, remaining, acc, buffer, pc, sends, inflight, chunks,
          answers, result, calls, accs>>

\* the state of the single call, and the state of the concurrent calls
single_vars == <<op, input, remaining, acc, buffer, pc, sends, inflight, chunks,
                 answers, result>>
conc_vars == <<calls, accs>>

MultiOps == {"send_push_notifications", "get_push_receipts"}
ChunkOps == {"send_push_notifications_in_one_chunk", "get_push_receipts_in_one_chunk"}
SingleOps == {"send_push_notification", "get_push_receipt"}
PushOps == {"send_push_notifications", "send_push_notifications_in_one_chunk",
            "send_push_notification"}
ReceiptOps == {"get_push_receipts", "get_push_receipts_in_one_chunk", "get_push_receipt"}

\* HashMap<PushReceiptId, PushReceipt> as a total function; "absent" = no entry
Maps == [ReceiptIds -> Receipts \cup {"absent"}]
EmptyMap == [k \in ReceiptIds |-> "absent"]
Keys(m) == {k \in ReceiptIds : m[k] # "absent"}
\* a merge that keeps only the latest chunk's entries
Extend_Replace(m, more) == more

\* a merge that keeps the entry already present (entry().or_insert)
Extend_KeepFirst(m, more) == [k \in ReceiptIds |-> IF m[k] # "absent" THEN m[k] ELSE more[k]]

\* HashMap::extend: entries of `more` overwrite entries of `m`
Extend(m, more) == [k \in ReceiptIds |-> IF more[k] # "absent" THEN more[k] ELSE m[k]]

NoResult == [kind |-> "None", err |-> "", status |-> 0, value |-> <<>>]
Ok(v) == [kind |-> "Ok", err |-> "", status |-> 0, value |-> v]
Err(e, st) == [kind |-> "Err", err |-> e, status |-> st, value |-> <<>>]
Panic == [kind |-> "Panic", err |-> "", status |-> 0, value |-> <<>>]

\* the locals of a call that has not been made yet
IdleCall ==
    [op |-> "none", input |-> <<>>, remaining |-> <<>>, pc |-> "idle",
     sends |-> <<>>, got |-> <<>>, result |-> NoResult]

\* the inputs a caller can pass to each operation
Inputs(o) ==
    CASE o = "send_push_notification" -> {<<m>> : m \in Messages}
      [] o = "get_push_receipt" -> {<<i>> : i \in ReceiptIds}
      [] o \in PushOps -> SeqsUpTo(Messages, MaxItems)
      [] OTHER -> SeqsUpTo(ReceiptIds, MaxItems)

\* the clients the builder methods are made to configure: every gzip policy and
\* every chunk size 0..MaxChunk of either kind occurs, and the two chunk sizes
\* of one client always differ, so that reading the wrong one shows
Clients ==
    {[gzip |-> g, push_chunk_size |-> c,
      receipt_chunk_size |-> (c + 1) % (MaxChunk + 1)] :
        g \in GzipPolicies, c \in 0..MaxChunk}

\* ExpoNotificationsClient::new() followed by the builder methods
Init ==
    /\ client \in Clients
    /\ op = "none"
    /\ input = <<>>
    /\ remaining = <<>>
    /\ acc = <<>>
    /\ buffer = <<>>
    /\ pc = "idle"
    /\ sends = <<>>
    /\ inflight = {}
    /\ chunks = <<>>
    /\ answers = <<>>
    /\ result = NoResult
    /\ calls = [i \in CallIds |-> IdleCall]
    /\ accs = [i \in CallIds |-> <<>>]

(* ------------------------------ send_request --------------------------- *)

\* the outcomes of building the request in send_request: the Content-Encoding
\* header and body of a request ready to send, or the encoder's I/O error
BuildRequest(url, payload, items) ==
    IF should_compress(client.gzip, Len(payload))
    THEN {[status |-> "Ok", url |-> url, items |-> items, payload |-> payload,
           content_encoding |-> "gzip",
           body |-> GzipBody(SubSeq(payload, 1, EncoderAccepts(Len(payload))))]}
         \cup {[status |-> "Io", url |-> url, items |-> items, payload |-> payload,
                content_encoding |-> "gzip", body |-> GzipBody(<<>>)]}
    ELSE {[status |-> "Ok", url |-> url, items |-> items, payload |-> payload,
           content_encoding |-> "none", body |-> PlainBody(payload)]}

(* ------------------------------ the call ------------------------------- *)

\* the URL an operation posts to
UrlOf(o) == IF o \in PushOps THEN "push_url" ELSE "receipt_url"

\* `"{\"ids\":"`, the bytes get_push_receipts_in_one_chunk starts its buffer with
IdsPrefix == <<123, 34, 105, 100, 115, 34, 58>>

\* the buffer a single-chunk primitive serializes into, as it starts
StartBuffer(o) == IF o \in ReceiptOps THEN IdsPrefix ELSE <<>>

\* a receipt body left without its closing '}'
ClosePayload_Unclosed(o, buf) == buf

\* the payload once the list is serialized: the receipt body is closed with '}'
ClosePayload(o, buf) == IF o \in ReceiptOps THEN buf \o <<125>> ELSE buf

\* the chunk size the dispatcher of operation o takes per iteration
ChunkSize(o) ==
    IF o = "send_push_notifications" THEN client.push_chunk_size
    ELSE client.receipt_chunk_size

\* a loop that submits a chunk before it looks at the input
LoopContinues_Always(rem) == TRUE

\* `while messages.peek().is_some()`
LoopContinues(rem) == rem # <<>>

\* a dispatcher that goes on to the next chunk without awaiting the send
AfterSend_NotAwaited == "peek"

\* where a call is once its request is handed to the transport: suspended on
\* `send_request(..).await`
AfterSend == "await_send"

Return(r) ==
    /\ pc' = "done"
    /\ result' = r

\* a public operation is called: the future is created with its locals
Call ==
    /\ pc = "idle"
    /\ \E o \in MultiOps \cup ChunkOps \cup SingleOps :
         \E in \in Inputs(o) :
           /\ op' = o
           /\ input' = in
           /\ remaining' = in
           /\ acc' = IF o \in ReceiptOps THEN EmptyMap ELSE <<>>
           /\ pc' = IF o \in MultiOps THEN "peek" ELSE "chunk"
    /\ UNCHANGED <<client, buffer, sends, inflight, chunks, answers, result>>
    /\ UNCHANGED conc_vars

\* send_push_notifications_in_one_chunk / get_push_receipts_in_one_chunk up to
\* `req.send().await`: serialize the items, build the request, hand it over
SubmitChunk(items, rest) ==
    LET st == serialize_into_json_list(items, StartBuffer(op)) IN
    /\ remaining' = rest
    /\ IF st.status = "Empty"
       THEN /\ buffer' = st.buffer
            /\ Return(Err("Empty", 0))
            /\ UNCHANGED <<sends, inflight>>
       ELSE IF st.status = "Panic"
       THEN /\ buffer' = st.buffer
            /\ Return(Panic)
            /\ UNCHANGED <<sends, inflight>>
       ELSE \E req \in BuildRequest(UrlOf(op), ClosePayload(op, st.buffer), items) :
              /\ buffer' = req.payload
              /\ IF req.status = "Io"
                 THEN /\ Return(Err("Io", 0))
                      /\ UNCHANGED <<sends, inflight>>
                 ELSE /\ sends' = Append(sends, req)
                      /\ inflight' = inflight \cup {Len(sends) + 1}
                      /\ pc' = AfterSend
                      /\ UNCHANGED result
    /\ UNCHANGED <<client, op, input, acc, chunks, answers>>
    /\ UNCHANGED conc_vars

\* one turn of the dispatcher's loop: peek, then submit the next chunk
Peek ==
    /\ pc = "peek"
    /\ IF LoopContinues(remaining)
       THEN SubmitChunk(Take(remaining, ChunkSize(op)), Rest(remaining, ChunkSize(op)))
       ELSE /\ Return(Ok(acc))
            /\ UNCHANGED <<client, op, input, remaining, acc, buffer, sends, inflight,
                           chunks, answers>>
            /\ UNCHANGED conc_vars

\* a single-chunk primitive (or a single-item wrapper) submits its whole input
OneChunk ==
    /\ pc = "chunk"
    /\ SubmitChunk(remaining, <<>>)

(* ------------------------------ the gateway ---------------------------- *)

\* a ticket as the gateway issues it for message m
Ticket(m) == [id |-> m]

\* ticket lists a gateway may answer a submission of `items` with: one ticket
\* per message in order, one ticket short, or one ticket too many
TicketLists(items) ==
    LET proper == [i \in 1..Len(items) |-> Ticket(items[i])] IN
    {proper, SubSeq(proper, 1, Len(proper) - 1), Append(proper, Ticket(9))}

\* response bodies the gateway may answer request req with
GatewayBodies(req) ==
    IF req.url = "push_url"
    THEN {[shape |-> "array", data |-> t] : t \in TicketLists(req.items)}
         \cup {[shape |-> "object", data |-> <<>>], [shape |-> "missing", data |-> <<>>]}
    ELSE {[shape |-> "object", data |-> m] : m \in Maps}
         \cup {[shape |-> "array", data |-> <<>>], [shape |-> "missing", data |-> <<>>]}

\* res.json::<PushResponse>() / res.json::<ReceiptResponse>() succeeds
Decodes(url, body) ==
    IF url = "push_url" THEN body.shape = "array" ELSE body.shape = "object"

\* a transport that takes every answered status for a success
IsSuccess_AnyStatus(status) == status # 0

\* Response::error_for_status keeps 2xx responses
IsSuccess(status) == status >= 200 /\ status < 300

\* `req.send().await?.error_for_status()?` completes: a connection failure
\* (status 0), a non-2xx status, or a 2xx response whose body is still to be read
GatewayRespond ==
    /\ pc = "await_send"
    /\ \E status \in Statuses \cup {0} :
         /\ answers' = Append(answers, [status |-> status, shape |-> "unread"])
         /\ IF IsSuccess(status)
            THEN /\ pc' = "await_json"
                 /\ UNCHANGED <<result, inflight>>
            ELSE /\ Return(Err("Transport", status))
                 /\ inflight' = {}
    /\ UNCHANGED <<client, op, input, remaining, acc, buffer, sends, chunks>>
    /\ UNCHANGED conc_vars

\* what the operation does with the decoded data of a chunk
Deliver(data) ==
    CASE op = "send_push_notifications" ->
           /\ acc' = acc \o data
           /\ pc' = "peek"
           /\ UNCHANGED result
      [] op = "get_push_receipts" ->
           /\ acc' = Extend(acc, data)
           /\ pc' = "peek"
           /\ UNCHANGED result
      [] op \in ChunkOps ->
           /\ Return(Ok(data))
           /\ UNCHANGED acc
      [] op = "send_push_notification" ->
           \* result.pop().unwrap()
           /\ Return(IF data = <<>> THEN Panic ELSE Ok(data[Len(data)]))
           /\ UNCHANGED acc
      [] op = "get_push_receipt" ->
           \* result.into_values().next(): any value of the map, or None
           /\ IF Keys(data) = {}
              THEN Return(Ok("None"))
              ELSE \E k \in Keys(data) : Return(Ok(data[k]))
           /\ UNCHANGED acc

\* a decoder that falls back to an empty `data` when the body does not fit
DecodeFailure_Default == Ok(<<>>)

\* what `res.json().await?` makes the operation return when decoding fails
DecodeFailure == Err("Decode", 0)

\* `res.json().await?` completes and the rest of the iteration runs
ReadBody ==
    /\ pc = "await_json"
    /\ \E body \in GatewayBodies(sends[Len(sends)]) :
         /\ answers' = [answers EXCEPT ![Len(answers)].shape = body.shape]
         /\ IF Decodes(UrlOf(op), body)
            THEN /\ chunks' = Append(chunks, body.data)
                 /\ Deliver(body.data)
            ELSE /\ Return(DecodeFailure)
                 /\ UNCHANGED <<acc, chunks>>
    /\ inflight' = {}
    /\ UNCHANGED <<client, op, input, remaining, buffer, sends>>
    /\ UNCHANGED conc_vars

Next == Call \/ Peek \/ OneChunk \/ GatewayRespond \/ ReadBody

Spec == Init /\ [][Next]_vars

(* ------------------------------ concurrent calls ----------------------- *)

\* the input of concurrent call i: up to MaxConcItems messages, the two calls'
\* sequences differing at every position
ConcInputs(i) == {[k \in 1..n |-> ((i + k) % 2) + 1] : n \in 0..MaxConcItems}

\* an accumulator kept in one place for all the calls on the client
AccOf_Shared(i) == 1

\* where call i keeps its `receipts` vector: a local of its own activation
AccOf(i) == i

\* call i ends with r
CReturn(i, r) ==
    calls' = [calls EXCEPT ![i].pc = "done", ![i].result = r]

\* send_push_notifications is called concurrently as call i
CStart(i) ==
    /\ calls[i].pc = "idle"
    /\ \E in \in ConcInputs(i) :
         calls' = [calls EXCEPT ![i] = [IdleCall EXCEPT !.op = "send_push_notifications",
                                                      !.input = in, !.remaining = in,
                                                      !.pc = "peek"]]
    /\ accs' = [accs EXCEPT ![AccOf(i)] = <<>>]
    /\ UNCHANGED <<client, single_vars>>

\* call i takes one turn of its loop, up to `req.send().await`
CPeek(i) ==
    LET c == calls[i]
        items == Take(c.remaining, ChunkSize(c.op))
        rest == Rest(c.remaining, ChunkSize(c.op))
        st == serialize_into_json_list(items, StartBuffer(c.op))
    IN
    /\ c.pc = "peek"
    /\ IF ~LoopContinues(c.remaining) THEN CReturn(i, Ok(accs[AccOf(i)]))
       ELSE IF st.status = "Empty"
       THEN calls' = [calls EXCEPT ![i].pc = "done", ![i].remaining = rest,
                                   ![i].result = Err("Empty", 0)]
       ELSE IF st.status = "Panic"
       THEN calls' = [calls EXCEPT ![i].pc = "done", ![i].remaining = rest,
                                   ![i].result = Panic]
       ELSE \E req \in BuildRequest(UrlOf(c.op), ClosePayload(c.op, st.buffer), items) :
              IF req.status = "Io"
              THEN calls' = [calls EXCEPT ![i].pc = "done", ![i].remaining = rest,
                                          ![i].result = Err("Io", 0)]
              ELSE calls' = [calls EXCEPT ![i].pc = AfterSend, ![i].remaining = rest,
                                          ![i].sends = Append(c.sends, req)]
    /\ UNCHANGED <<client, single_vars, accs>>

\* the gateway answers the request call i is suspended on
CRespond(i) ==
    /\ calls[i].pc = "await_send"
    /\ \E status \in Statuses \cup {0} :
         IF IsSuccess(status)
         THEN calls' = [calls EXCEPT ![i].pc = "await_json"]
         ELSE CReturn(i, Err("Transport", status))
    /\ UNCHANGED <<client, single_vars, accs>>

\* call i reads and decodes the body of its response and extends its vector
CReadBody(i) ==
    LET c == calls[i] IN
    /\ c.pc = "await_json"
    /\ \E body \in GatewayBodies(c.sends[Len(c.sends)]) :
         IF Decodes(UrlOf(c.op), body)
         THEN /\ calls' = [calls EXCEPT ![i].pc = "peek", ![i].got = Append(c.got, body.data)]
              /\ accs' = [accs EXCEPT ![AccOf(i)] = accs[AccOf(i)] \o body.data]
         ELSE /\ CReturn(i, DecodeFailure)
              /\ UNCHANGED accs
    /\ UNCHANGED <<client, single_vars>>

ConcStart == \E i \in CallIds : CStart(i)
ConcPeek == \E i \in CallIds : CPeek(i)
ConcRespond == \E i \in CallIds : CRespond(i)
ConcReadBody == \E i \in CallIds : CReadBody(i)

ConcNext == ConcStart \/ ConcPeek \/ ConcRespond \/ ConcReadBody

ConcurrentSpec == Init /\ [][ConcNext]_vars

(* ------------------------------ claims --------------------------------- *)

Done == pc = "done"

\* ceil(n / c) for c > 0
Ceil(n, c) == (n + c - 1) \div c

\* the k-th chunk of the input for chunk size c: items (k-1)*c+1 .. min(k*c, N)
InputChunk(k, c) == SubSeq(input, (k - 1) * c + 1, Min(k * c, Len(input)))

\* C1: a send_push_notifications call on a non-empty input of N messages with
\* push_chunk_size C > 0 in which every chunk succeeded has issued exactly
\* ceil(N/C) sends to the push URL, the k-th carrying exactly the serialized input
\* items (k-1)*C+1 .. min(k*C, N) in input order; so every send but the last
\* carries C items and every item is sent once.
C1_ChunkedSends ==
    (Done /\ op = "send_push_notifications" /\ result.kind = "Ok"
          /\ input # <<>> /\ client.push_chunk_size > 0)
    => LET C == client.push_chunk_size
           N == Len(input)
       IN /\ Len(sends) = Ceil(N, C)
          /\ \A k \in 1..Len(sends) :
               /\ sends[k].url = "push_url"
               /\ sends[k].items = InputChunk(k, C)
               /\ sends[k].payload = serialize_into_json_list(InputChunk(k, C), <<>>).buffer
               /\ (k < Len(sends) => Len(sends[k].items) = C)

\* C1 witness: three messages sent with chunk size 2 as sends of 2 and 1
C1_Witness ==
    /\ Done /\ op = "send_push_notifications" /\ result.kind = "Ok"
    /\ Len(input) = 3 /\ client.push_chunk_size = 2
    /\ Len(sends) = 2 /\ Len(sends[1].items) = 2 /\ Len(sends[2].items) = 1

\* C2: when send_push_notifications returns Ok, the returned list holds exactly
\* one ticket per input message: its length is N and its i-th ticket is the
\* ticket of the i-th input message.
C2_OneTicketPerMessage ==
    (Done /\ op = "send_push_notifications" /\ result.kind = "Ok")
    => /\ Len(result.value) = Len(input)
       /\ \A i \in 1..Len(input) : result.value[i] = Ticket(input[i])

\* C3: a multi-item call in which a chunk failed ends with an error value that
\* carries no partial result, and the failed chunk's request is the last one
\* issued.
C3_FailureAborts ==
    (Done /\ op \in MultiOps /\ result.kind # "Ok")
    => /\ result.kind = "Err"
       /\ result.value = <<>>
       /\ Len(sends) <= Len(chunks) + 1

\* C4: a multi-item call on an empty input returns Ok with an empty result, and
\* never issues a send, whatever the chunk size.
C4_EmptyInputOk ==
    (op \in MultiOps /\ input = <<>>)
    => /\ sends = <<>>
       /\ Done => /\ result.kind = "Ok"
                  /\ IF op = "send_push_notifications"
                     THEN result.value = <<>>
                     ELSE Keys(result.value) = {}

\* C4 witness: a multi-item call on an empty input has returned, chunk size 0 too
C4_Witness ==
    Done /\ op \in MultiOps /\ input = <<>> /\ ChunkSize(op) = 0 /\ result.kind = "Ok"

\* C5: a single-chunk primitive called with an empty sequence returns the Empty
\* error and issues no send.
C5_EmptyChunkIsError ==
    (op \in ChunkOps /\ input = <<>>)
    => /\ sends = <<>>
       /\ Done => result = Err("Empty", 0)

\* C5 witness: the receipt primitive has returned Empty for an empty sequence
C5_Witness ==
    /\ Done /\ op = "get_push_receipts_in_one_chunk" /\ input = <<>>
    /\ result = Err("Empty", 0) /\ sends = <<>>

\* C6: within a multi-item call at most one request is in flight, it is the
\* latest one issued, and the request of chunk k+1 exists only once the
\* responses of chunks 1..k have been received and decoded.
C6_Sequential ==
    op \in MultiOps
    => /\ Cardinality(inflight) <= 1
       /\ inflight \subseteq {Len(sends)}
       /\ Len(sends) <= Len(chunks) + 1
       /\ (pc = "peek" => inflight = {} /\ Len(sends) = Len(chunks))

\* C6 witness: the second chunk's request is in flight after the first was decoded
C6_Witness ==
    /\ op \in MultiOps /\ pc = "await_send"
    /\ Len(sends) = 2 /\ Len(chunks) = 1 /\ inflight = {2}

\* C7: every request sent carries Content-Encoding: gzip (and a gzip body)
\* exactly when the policy decides so on the length n of the serialized payload:
\* Never -> never, Always -> always, threshold T -> iff n > T.
C7_CompressionDecision ==
    \A k \in 1..Len(sends) :
      LET n == Len(sends[k].payload)
          gz == sends[k].content_encoding = "gzip"
      IN /\ client.gzip.kind = "Never" => ~gz
         /\ client.gzip.kind = "Always" => gz
         /\ client.gzip.kind = "ZipGreaterThanTreshold" => (gz <=> n > client.gzip.treshold)
         /\ gz <=> sends[k].body.encoding = "gzip"

\* C7 witness: under a threshold T one call sent a body of T bytes uncompressed
\* and a body of T+1 bytes compressed
C7_Witness ==
    /\ client.gzip.kind = "ZipGreaterThanTreshold"
    /\ \E j, k \in 1..Len(sends) :
         /\ Len(sends[j].payload) = client.gzip.treshold
         /\ sends[j].content_encoding = "none"
         /\ Len(sends[k].payload) = client.gzip.treshold + 1
         /\ sends[k].content_encoding = "gzip"

\* C8: a multi-item call with chunk size 0 ends at its first loop turn: the turn
\* can always be taken, it ends the call without any request sent, and with an
\* error when the input is not empty.
C8_ZeroChunkTerminates ==
    /\ []((op \in MultiOps /\ pc = "peek" /\ ChunkSize(op) = 0) => ENABLED Peek)
    /\ [][(op \in MultiOps /\ pc = "peek" /\ ChunkSize(op) = 0)
          => /\ pc' = "done"
             /\ sends' = <<>>
             /\ (input # <<>> => result'.kind = "Err")]_vars

\* C8 witness: a non-empty input with chunk size 0 was rejected with no send
C8_Witness ==
    /\ Done /\ op \in MultiOps /\ ChunkSize(op) = 0 /\ input # <<>>
    /\ result = Err("Empty", 0) /\ sends = <<>>

\* the number of chunks a multi-item call on the input makes with chunk size c > 0
ChunkCount(c) == Ceil(Len(input), c)

\* C9: a get_push_receipts call on a non-empty input whose chunks all succeeded
\* returns Ok with a mapping whose keys are exactly the ids some chunk's response
\* held data for, each with a receipt a response gave for it; ids the gateway
\* left out have no entry and cause no error.
C9_ReceiptsMerged ==
    (Done /\ op = "get_push_receipts" /\ input # <<>> /\ client.receipt_chunk_size > 0
          /\ Len(chunks) = ChunkCount(client.receipt_chunk_size))
    => /\ result.kind = "Ok"
       /\ Keys(result.value) = UNION {Keys(chunks[k]) : k \in 1..Len(chunks)}
       /\ \A id \in Keys(result.value) :
            \E k \in 1..Len(chunks) : chunks[k][id] = result.value[id]

\* C9 witness: two chunks answered, an id of the first chunk's response is in the
\* result, and a requested id the gateway left out is not
C9_Witness ==
    /\ Done /\ op = "get_push_receipts" /\ result.kind = "Ok" /\ Len(chunks) = 2
    /\ \E a, b \in ReceiptIds :
         /\ a \in Keys(chunks[1]) /\ a \notin Keys(chunks[2]) /\ a \in Keys(result.value)
         /\ \E i \in 1..Len(input) : input[i] = b
         /\ b \notin Keys(result.value)

\* C10: a single-chunk submission holding an item whose serialization fails ends
\* with an Err value (not a panic) and sends nothing.
C10_SerializationErrorReturned ==
    (Done /\ op \in ChunkOps /\ \E i \in 1..Len(input) : ~Serializable(input[i]))
    => /\ result.kind = "Err"
       /\ sends = <<>>

\* whether a status is a 2xx status
Is2xx(status) == status \in 200..299

ExpectedShape(o) == IF o \in PushOps THEN "array" ELSE "object"

\* C12: a 2xx response whose body has no `data`, or `data` of the wrong shape for
\* the endpoint, ends the operation with a decoding error: it is the last answer
\* of the call and the call does not return Ok.
C12_MalformedBodyIsError ==
    \A k \in 1..Len(answers) :
      answers[k].shape \notin {"unread", ExpectedShape(op)}
      => /\ k = Len(answers)
         /\ Done
         /\ result = Err("Decode", 0)
         /\ Len(chunks) = k - 1

\* C12 witness: the second chunk's 2xx body lacked `data` and the call returned
\* the decoding error
C12_Witness ==
    /\ Done /\ op = "send_push_notifications" /\ Len(answers) = 2 /\ Len(chunks) = 1
    /\ answers[2].shape = "missing" /\ result = Err("Decode", 0)

RECURSIVE Flatten(_)
\* the concatenation of a sequence of ticket lists, in order
Flatten(lists) ==
    IF lists = <<>> THEN <<>> ELSE Head(lists) \o Flatten(Tail(lists))

\* what call i does when it runs alone on its input with the responses it got:
\* its k-th request is the one built for the k-th chunk of its own input, its
\* vector holds the tickets of its own responses in order, and an Ok result is
\* that vector after ceil(N/C) chunks
RunsAsAlone(i) ==
    LET c == calls[i]
        C == client.push_chunk_size
        N == Len(c.input)
        chunk(k) == SubSeq(c.input, (k - 1) * C + 1, Min(k * C, N))
    IN /\ Len(c.got) <= Len(c.sends) /\ Len(c.sends) <= Len(c.got) + 1
       /\ C = 0 => c.sends = <<>>
       /\ \A k \in 1..Len(c.sends) :
            c.sends[k] \in BuildRequest("push_url",
                                        serialize_into_json_list(chunk(k), <<>>).buffer,
                                        chunk(k))
       /\ c.pc = "peek" => accs[i] = Flatten(c.got) /\ Len(c.sends) = Len(c.got)
       /\ (c.pc = "done" /\ c.result.kind = "Ok")
          => /\ c.result.value = Flatten(c.got)
             /\ Len(c.sends) = Len(c.got)
             /\ Len(c.sends) = IF N = 0 THEN 0 ELSE Ceil(N, C)

\* C13: under every interleaving of two calls on one client, each call issues the
\* sends and returns the result it would alone with the responses it got, a step
\* of one call leaves the locals of the other untouched, and no step changes the
\* client's configuration.
C13_CallsDoNotInterfere ==
    /\ [](\A i \in CallIds : RunsAsAlone(i))
    /\ [][/\ client' = client
          /\ \A i \in CallIds :
               calls'[i] # calls[i]
               => \A j \in CallIds \ {i} : calls'[j] = calls[j] /\ accs'[j] = accs[j]]_vars

\* C13 witness: both calls have their second chunk's request out at the same
\* time, one already answered
C13_Witness ==
    /\ calls[1].pc = "await_json" /\ calls[2].pc = "await_send"
    /\ Len(calls[1].sends) = 2 /\ Len(calls[2].sends) = 2
    /\ accs[1] # <<>> /\ accs[2] # <<>>

\* C14: send_push_notification on a serializable message issues at most one
\* send, never panics, and when it returns Ok the value is the ticket the
\* gateway issued for that message.
C14_SingleTicket ==
    (Done /\ op = "send_push_notification" /\ Serializable(input[1]))
    => /\ Len(sends) <= 1
       /\ result.kind # "Panic"
       /\ result.kind = "Ok" => result.value = Ticket(input[1])

\* C15: when the serializer returns Empty the buffer it was given is unchanged.
C15_EmptyLeavesBuffer ==
    (Done /\ result = Err("Empty", 0)) => buffer = StartBuffer(op)

\* C16: the body of every compressed request holds the whole serialized payload.
C16_WholePayloadCompressed ==
    \A k \in 1..Len(sends) :
      sends[k].content_encoding = "gzip" => sends[k].body.plain = sends[k].payload

RECURSIVE Joined(_)
\* the item encodings of a non-empty sequence, a comma between neighbours
Joined(items) ==
    IF Len(items) = 1 THEN ItemBytes(items[1])
    ELSE Joined(SubSeq(items, 1, Len(items) - 1)) \o <<44>> \o ItemBytes(items[Len(items)])

\* the number of commas in a byte sequence
Commas(bytes) == Cardinality({i \in 1..Len(bytes) : bytes[i] = 44})

\* C17: the payload of every request of n >= 1 items is '[' + the n item
\* encodings in input order with n-1 commas between them + ']' for a submission,
\* and '{"ids":' + that list + '}' for a receipt lookup.
C17_WireBody ==
    \A k \in 1..Len(sends) :
      LET items == sends[k].items
          list == <<91>> \o Joined(items) \o <<93>>
      IN Len(items) >= 1
         => /\ Commas(sends[k].payload) = Len(items) - 1
            /\ sends[k].payload =
                 IF sends[k].url = "push_url" THEN list
                 ELSE <<123, 34, 105, 100, 115, 34, 58>> \o list \o <<125>>

\* C17 witness: a receipt lookup of three ids and a submission of two messages
\* were sent
C17_Witness ==
    \E k \in 1..Len(sends) :
      \/ sends[k].url = "receipt_url" /\ Len(sends[k].items) = 3
      \/ sends[k].url = "push_url" /\ Len(sends[k].items) = 2 /\ k = 2

\* C18: get_push_receipt returns Some(r) only when the response maps the
\* requested id to r, and None exactly when the response has no entry for it.
C18_ReceiptOfRequestedId ==
    (Done /\ op = "get_push_receipt" /\ result.kind = "Ok")
    => result.value = IF chunks[1][input[1]] = "absent" THEN "None"
                      ELSE chunks[1][input[1]]

\* the last chunk whose response held an entry for id (0 if none did)
LastChunkWith(id) ==
    LET ks == {k \in 1..Len(chunks) : id \in Keys(chunks[k])}
    IN IF ks = {} THEN 0 ELSE CHOOSE k \in ks : \A j \in ks : j <= k

\* C19: in the mapping get_push_receipts returns, every id has the receipt of the
\* last chunk response that held it: an id answered in two chunks gets the later
\* receipt, and the entries of the other ids are what their chunk answered.
C19_LaterChunkWins ==
    (Done /\ op = "get_push_receipts" /\ result.kind = "Ok")
    => \A id \in ReceiptIds :
         IF LastChunkWith(id) = 0 THEN result.value[id] = "absent"
         ELSE result.value[id] = chunks[LastChunkWith(id)][id]

\* C19 witness: two chunk responses gave different receipts for one id, and the
\* call returned the later one
C19_Witness ==
    /\ Done /\ op = "get_push_receipts" /\ result.kind = "Ok" /\ Len(chunks) = 2
    /\ \E id \in ReceiptIds :
         /\ chunks[1][id] = "ok" /\ chunks[2][id] = "error"
         /\ result.value[id] = "error"

====
